---- MODULE Spec2Model ----
(***************************************************************************)
(* TcpConnection of riak/transports/tcp/connection.py as a state machine.  *)
(*                                                                         *)
(* One connection object, one caller.  A request() is followed step by     *)
(* step: _connect, the security handshake (_starttls, _ssl_handshake,      *)
(* _auth), the encoding toggle (_enable_ttb), the caller's frame and the   *)
(* reply.  Whatever the peer answers is an input: every receive draws the  *)
(* frame body from Frames.                                                 *)
(*                                                                         *)
(* SpecPkt follows one frame byte by byte instead: _encode_msg builds it   *)
(* and _recv_pkt reads it from a peer that delivers it in chunks and may   *)
(* close the stream part-way.                                              *)
(***************************************************************************)
EXTENDS Naturals, Sequences, FiniteSets, TLC

\* The most sockets socket.create_connection hands out in one behaviour.
MaxSockets == 2

(***************************************************************************)
(* riak.pb.messages: the message codes the connection names, and the       *)
(* registry MESSAGE_CLASSES.  A code whose message has no body is          *)
(* registered with the class None.                                         *)
(***************************************************************************)
MSG_CODE_ERROR_RESP == 0
MSG_CODE_PING_REQ == 1
MSG_CODE_PING_RESP == 2
MSG_CODE_TS_PUT_RESP == 93
MSG_CODE_TS_GET_REQ == 96
MSG_CODE_TS_GET_RESP == 97
MSG_CODE_TOGGLE_ENCODING_REQ == 110
MSG_CODE_TOGGLE_ENCODING_RESP == 111
MSG_CODE_AUTH_REQ == 253
MSG_CODE_AUTH_RESP == 254
MSG_CODE_START_TLS == 255

MESSAGE_CLASSES ==
    [c \in {MSG_CODE_ERROR_RESP, MSG_CODE_PING_REQ, MSG_CODE_PING_RESP,
            MSG_CODE_TS_PUT_RESP, MSG_CODE_TS_GET_REQ, MSG_CODE_TS_GET_RESP,
            MSG_CODE_TOGGLE_ENCODING_REQ, MSG_CODE_TOGGLE_ENCODING_RESP,
            MSG_CODE_AUTH_REQ, MSG_CODE_AUTH_RESP, MSG_CODE_START_TLS} |->
        IF c \in {MSG_CODE_PING_REQ, MSG_CODE_PING_RESP,
                  MSG_CODE_AUTH_RESP, MSG_CODE_START_TLS}
        THEN "None" ELSE "pb"]

(***************************************************************************)
(* Inputs.  A payload is a byte string; a frame body (what _recv_pkt       *)
(* returns) is the code byte followed by the payload, or the empty string  *)
(* of a frame of length 0.  200 is a byte that is no registered code.      *)
(***************************************************************************)
Packets == {<< >>, <<7>>}

ReplyCodes == {MSG_CODE_ERROR_RESP, MSG_CODE_PING_RESP, MSG_CODE_TS_PUT_RESP,
               MSG_CODE_TS_GET_RESP, MSG_CODE_TOGGLE_ENCODING_RESP,
               MSG_CODE_AUTH_RESP, MSG_CODE_START_TLS, 200}

Frames == {<< >>} \cup {<<c>> \o p : c \in ReplyCodes, p \in Packets}

\* request()'s arguments.  An optional argument is << >> (None) or <<v>>.
RequestCodes == {MSG_CODE_PING_REQ, MSG_CODE_TS_GET_REQ}
RequestMsgs == {<< >>, <<7>>}
Expects == {<< >>, <<MSG_CODE_ERROR_RESP>>, <<MSG_CODE_PING_RESP>>,
            <<MSG_CODE_TS_GET_RESP>>}

VARIABLES
    creds,            \* self._client._credentials is set
    use_stdlib_ssl,   \* USE_STDLIB_SSL: which _ssl_handshake the build defines
    sock,             \* self._socket: None, a socket, or the attribute deleted
    ttb_enabled,      \* self._ttb_enabled
    pc,               \* where the call in progress stands ("idle": none)
    call,             \* the call in progress, or the last one
    outcome,          \* what the last completed call returned or raised
    trace,            \* what the call in progress (or the last one) did on the wire
    hs,               \* per socket: what has happened on it so far
    opened,           \* sockets created so far
    pkt               \* one frame followed byte by byte: _encode_msg, _recv_pkt

vars == <<creds, use_stdlib_ssl, sock, ttb_enabled, pc, call, outcome, trace,
          hs, opened, pkt>>

Sockets == 1..MaxSockets

(***************************************************************************)
(* Values.                                                                 *)
(***************************************************************************)
NoneMsg == [tag |-> "None", code |-> 0, data |-> << >>]

Ret(code, msg) ==
    [st |-> "return", cls |-> "", text |-> "", code |-> code, msg |-> msg,
     at |-> ""]

Raise(cls, text, code, msg) ==
    [st |-> "raise", cls |-> cls, text |-> text, code |-> code, msg |-> msg,
     at |-> ""]

NoOutcome ==
    [st |-> "none", cls |-> "", text |-> "", code |-> 0, msg |-> NoneMsg,
     at |-> ""]

Ev(op, s, by, code, data) ==
    [op |-> op, sock |-> s, by |-> by, code |-> code, data |-> data]

FreshSocket ==
    [closed |-> FALSE, hsRuns |-> 0, starttls |-> FALSE, tls |-> "untried",
     authSent |-> FALSE, auth |-> FALSE, toggled |-> FALSE, unread |-> FALSE]

\* Python's truth value of an optional message code: None and 0 are false.
Truthy(opt) == Len(opt) = 1 /\ opt[1] # 0

(***************************************************************************)
(* _parse_msg (lines 253-273)                                              *)
(***************************************************************************)
TtbAllowed == {MSG_CODE_TS_GET_RESP, MSG_CODE_TS_PUT_RESP}

\* _parse_msg without the test of lines 255-257.
ParseMsgAnyCode(code, packet, is_ttb) ==
    IF is_ttb
    THEN IF Len(packet) > 0
         THEN Ret(code, [tag |-> "ttb", code |-> code, data |-> packet])
         ELSE Ret(code, NoneMsg)
    ELSE IF code \notin DOMAIN MESSAGE_CLASSES
         THEN Ret(code, NoneMsg)
         ELSE IF MESSAGE_CLASSES[code] = "None"
              THEN Ret(code, NoneMsg)
              ELSE Ret(code, [tag |-> "pb", code |-> code, data |-> packet])

ParseMsg(code, packet, is_ttb) ==
    IF is_ttb
    THEN IF code \notin TtbAllowed
         THEN Raise("RiakError", "TTB can't parse code", code, NoneMsg)
         ELSE IF Len(packet) > 0
              THEN Ret(code, [tag |-> "ttb", code |-> code, data |-> packet])
              ELSE Ret(code, NoneMsg)
    ELSE IF code \notin DOMAIN MESSAGE_CLASSES
         THEN Ret(code, NoneMsg)
         ELSE IF MESSAGE_CLASSES[code] = "None"
              THEN Ret(code, NoneMsg)
              ELSE Ret(code, [tag |-> "pb", code |-> code, data |-> packet])

\* The test of line 213 taking only an empty read for a short header.
ShortHeaderOnlyIfEmpty(recv_len) == recv_len = 0

\* line 213
ShortHeader(recv_len) == recv_len # 4

(***************************************************************************)
(* _recv_msg (lines 187-207) on the frame body _recv_pkt returned          *)
(***************************************************************************)
\* The check of line 202 with its comparison inverted.
ExpectMismatchInverted(expect, msg_code) ==
    Truthy(expect) /\ msg_code = expect[1]

ExpectMismatch(expect, msg_code) == Truthy(expect) /\ msg_code # expect[1]

RecvMsg(msgbuf, expect, is_ttb) ==
    IF Len(msgbuf) = 0
    THEN Raise("struct.error", "unpack requires a buffer of 1 bytes", 0, NoneMsg)
    ELSE LET msg_code == Head(msgbuf)
             parsed == ParseMsg(msg_code, Tail(msgbuf), is_ttb)
         IN  IF msg_code = MSG_CODE_ERROR_RESP
             THEN IF parsed.st = "raise"
                  THEN parsed
                  ELSE IF parsed.msg.tag = "None"
                       THEN Raise("RiakError", "no error provided!", msg_code, NoneMsg)
                       ELSE Raise("RiakError", "%errmsg", msg_code, parsed.msg)
             ELSE IF msg_code \in DOMAIN MESSAGE_CLASSES
                  THEN IF parsed.st = "raise"
                       THEN parsed
                       ELSE IF ExpectMismatch(expect, msg_code)
                            THEN Raise("RiakError",
                                       "unexpected protocol buffer message code",
                                       msg_code, parsed.msg)
                            ELSE parsed
                  ELSE Raise("Exception", "unknown msg code", msg_code, NoneMsg)

(***************************************************************************)
(* The object after construction.  TcpConnection.__init__ clears the       *)
(* native-term flag; the transport's initializer leaves the connection     *)
(* disconnected (no socket) and fixes the credentials.                     *)
(***************************************************************************)
\* pkt while the connection as a whole is followed.
PktOff ==
    [pc |-> "off", msg_code |-> 0, msg |-> << >>, is_ttb |-> FALSE, cut |-> 0,
     eof |-> FALSE, frame |-> << >>, wire |-> << >>, recv_len |-> 0,
     msglen |-> 0, toread |-> 0, nread |-> 0, msgbuf |-> << >>,
     zero_read |-> FALSE, result |-> "none"]

TransportInit ==
    /\ creds \in BOOLEAN
    /\ sock = [st |-> "None", id |-> 0, ssl |-> FALSE]

Init ==
    /\ TransportInit
    /\ use_stdlib_ssl \in BOOLEAN
    /\ ttb_enabled = FALSE
    /\ pc = "idle"
    /\ call = [op |-> "none", msg_code |-> 0, msg |-> << >>, expect |-> << >>,
               is_ttb |-> FALSE]
    /\ outcome = NoOutcome
    /\ trace = << >>
    /\ hs = [s \in Sockets |-> FreshSocket]
    /\ opened = 0
    /\ pkt = PktOff

Config == <<creds, use_stdlib_ssl>>

\* The call in progress ends: it returns or raises `res`, at step pc.
Finish(res) == pc' = "idle" /\ outcome' = [res EXCEPT !.at = pc]

Log(e) == trace' = Append(trace, e)

(***************************************************************************)
(* request(): _request (line 42) enters _send_msg (line 61)                *)
(***************************************************************************)
Request(msg_code, msg, expect, is_ttb) ==
    /\ pc = "idle"
    /\ sock.st = "None" => opened < MaxSockets
    /\ call' = [op |-> "request", msg_code |-> msg_code, msg |-> msg,
                expect |-> expect, is_ttb |-> is_ttb]
    /\ pc' = "connect"
    /\ outcome' = NoOutcome
    /\ trace' = << >>
    /\ UNCHANGED <<Config, pkt, sock, ttb_enabled, hs, opened>>

(***************************************************************************)
(* _connect (lines 235-243)                                                *)
(***************************************************************************)
\* _connect running the handshake on every new socket.
AlwaysSecure == TRUE

\* line 242
NeedsSecurity == creds

Connect ==
    /\ pc = "connect"
    /\ IF sock.st = "deleted"
       THEN /\ Finish(Raise("AttributeError", "_socket", 0, NoneMsg))
            /\ Log(Ev("connect", 0, "attr", 0, << >>))
            /\ UNCHANGED <<sock, hs, opened>>
       ELSE IF sock.st = "open"
       THEN /\ pc' = "enable_ttb"
            /\ Log(Ev("connect", sock.id, "noop", 0, << >>))
            /\ UNCHANGED <<sock, hs, opened, outcome>>
       ELSE \E ok \in BOOLEAN :
              IF ok
              THEN /\ sock' = [st |-> "open", id |-> opened + 1, ssl |-> FALSE]
                   /\ opened' = opened + 1
                   /\ Log(Ev("connect", opened + 1, "open", 0, << >>))
                   /\ pc' = IF NeedsSecurity THEN "starttls" ELSE "enable_ttb"
                   /\ UNCHANGED <<hs, outcome>>
              ELSE /\ Finish(Raise("socket.error", "create_connection", 0, NoneMsg))
                   /\ Log(Ev("connect", 0, "refused", 0, << >>))
                   /\ UNCHANGED <<sock, hs, opened>>
    /\ UNCHANGED <<Config, pkt, ttb_enabled, call>>

(***************************************************************************)
(* _init_security (lines 67-76), step 1: _starttls (lines 78-88)           *)
(***************************************************************************)
StartTlsSend ==
    /\ pc = "starttls"
    /\ Log(Ev("send", sock.id, "starttls", MSG_CODE_START_TLS, << >>))
    /\ hs' = [hs EXCEPT ![sock.id].hsRuns = @ + 1]
    /\ pc' = "starttls_recv"
    /\ UNCHANGED <<Config, pkt, sock, ttb_enabled, call, outcome, opened>>

RecvEv(by, msgbuf) ==
    IF Len(msgbuf) = 0
    THEN Ev("recv0", sock.id, by, 0, << >>)
    ELSE Ev("recv", sock.id, by, Head(msgbuf), Tail(msgbuf))

\* _starttls taking any reply that _recv_msg returns for confirmation.
StartTlsAlwaysConfirmed(msg_code) == TRUE

\* _starttls's return value (lines 85-88)
StartTlsConfirmed(msg_code) == msg_code = MSG_CODE_START_TLS

StartTlsRecv ==
    /\ pc = "starttls_recv"
    /\ \E msgbuf \in Frames :
         LET r == RecvMsg(msgbuf, << >>, FALSE) IN
         /\ Log(RecvEv("starttls", msgbuf))
         /\ hs' = [hs EXCEPT ![sock.id].starttls =
                       Len(msgbuf) > 0 /\ Head(msgbuf) = MSG_CODE_START_TLS]
         /\ IF r.st = "raise"
            THEN Finish(r)
            ELSE IF StartTlsConfirmed(r.code)
                 THEN pc' = "ssl_handshake" /\ UNCHANGED outcome
                 ELSE Finish(Raise("SecurityError",
                                   "Could not start TLS connection", r.code, NoneMsg))
    /\ UNCHANGED <<Config, pkt, sock, ttb_enabled, call, opened>>

(***************************************************************************)
(* step 2: _ssl_handshake (lines 130-185).  The pyOpenSSL build replaces   *)
(* self._socket before it checks the certificate for revocation; the       *)
(* stdlib build has no such check.                                         *)
(***************************************************************************)
SslResults ==
    IF use_stdlib_ssl THEN {"ok", "error"} ELSE {"ok", "error", "revoked"}

SslHandshake ==
    /\ pc = "ssl_handshake"
    /\ IF creds
       THEN \E res \in SslResults :
              /\ Log(Ev("tls", sock.id, res, 0, << >>))
              /\ hs' = [hs EXCEPT ![sock.id].tls = res]
              /\ sock' = [sock EXCEPT !.ssl = (res # "error")]
              /\ IF res = "ok"
                 THEN pc' = "auth" /\ UNCHANGED outcome
                 ELSE Finish(Raise("SecurityError", "%e", 0, NoneMsg))
       ELSE /\ pc' = "auth"
            /\ UNCHANGED <<trace, hs, sock, outcome>>
    /\ UNCHANGED <<Config, pkt, ttb_enabled, call, opened>>

(***************************************************************************)
(* step 3: _auth (lines 108-128)                                           *)
(***************************************************************************)
AuthSend ==
    /\ pc = "auth"
    /\ Log(Ev("send", sock.id, "auth", MSG_CODE_AUTH_REQ, << >>))
    /\ hs' = [hs EXCEPT ![sock.id].authSent = TRUE]
    /\ pc' = "auth_recv"
    /\ UNCHANGED <<Config, pkt, sock, ttb_enabled, call, outcome, opened>>

\* _auth's return value (lines 125-128)
AuthConfirmed(msg_code) == msg_code = MSG_CODE_AUTH_RESP

AuthRecv ==
    /\ pc = "auth_recv"
    /\ \E msgbuf \in Frames :
         LET r == RecvMsg(msgbuf, <<MSG_CODE_AUTH_RESP>>, FALSE) IN
         /\ Log(RecvEv("auth", msgbuf))
         /\ hs' = [hs EXCEPT ![sock.id].auth =
                       Len(msgbuf) > 0 /\ Head(msgbuf) = MSG_CODE_AUTH_RESP]
         /\ IF r.st = "raise"
            THEN Finish(r)
            ELSE IF AuthConfirmed(r.code)
                 THEN pc' = "enable_ttb" /\ UNCHANGED outcome
                 ELSE Finish(Raise("SecurityError",
                                   "Could not authorize connection", r.code, NoneMsg))
    /\ UNCHANGED <<Config, pkt, sock, ttb_enabled, call, opened>>

(***************************************************************************)
(* _send_msg after _connect (lines 63-65) and _enable_ttb (lines 90-106)   *)
(***************************************************************************)
\* _enable_ttb without the test of line 91.
EnableTtbNoCache ==
    /\ pc = "enable_ttb"
    /\ IF call.is_ttb
       THEN /\ Log(Ev("send", sock.id, "toggle", MSG_CODE_TOGGLE_ENCODING_REQ, <<1>>))
            /\ pc' = "toggle_recv"
       ELSE /\ pc' = "send"
            /\ UNCHANGED trace
    /\ UNCHANGED <<Config, pkt, sock, ttb_enabled, call, outcome, hs, opened>>

EnableTtb ==
    /\ pc = "enable_ttb"
    /\ IF call.is_ttb /\ ~ttb_enabled
       THEN /\ Log(Ev("send", sock.id, "toggle", MSG_CODE_TOGGLE_ENCODING_REQ, <<1>>))
            /\ pc' = "toggle_recv"
       ELSE /\ pc' = "send"
            /\ UNCHANGED trace
    /\ UNCHANGED <<Config, pkt, sock, ttb_enabled, call, outcome, hs, opened>>

ToggleRecv ==
    /\ pc = "toggle_recv"
    /\ \E msgbuf \in Frames :
         LET r == RecvMsg(msgbuf, <<MSG_CODE_TOGGLE_ENCODING_RESP>>, FALSE) IN
         /\ Log(RecvEv("toggle", msgbuf))
         /\ hs' = [hs EXCEPT ![sock.id].toggled =
                       @ \/ (Len(msgbuf) > 0
                             /\ Head(msgbuf) = MSG_CODE_TOGGLE_ENCODING_RESP)]
         /\ IF r.st = "raise"
            THEN Finish(r) /\ UNCHANGED ttb_enabled
            ELSE IF r.code = MSG_CODE_TOGGLE_ENCODING_RESP
                 THEN /\ ttb_enabled' = TRUE
                      /\ pc' = "send"
                      /\ UNCHANGED outcome
                 ELSE /\ Finish(Raise("RiakError",
                                      "could not switch to TTB encoding!",
                                      r.code, NoneMsg))
                      /\ UNCHANGED ttb_enabled
    /\ UNCHANGED <<Config, pkt, sock, call, opened>>

\* _non_connect_send_msg of the caller's frame (line 65)
SendMsg ==
    /\ pc = "send"
    /\ Log(Ev("send", sock.id, "caller", call.msg_code, call.msg))
    /\ pc' = "recv"
    /\ UNCHANGED <<Config, pkt, sock, ttb_enabled, call, outcome, hs, opened>>

\* _request dropping the socket when _recv_msg raises.
RecvReplyDropsSocket ==
    /\ pc = "recv"
    /\ \E msgbuf \in Frames :
         /\ Log(RecvEv("caller", msgbuf))
         /\ Finish(RecvMsg(msgbuf, call.expect, call.is_ttb))
         /\ sock' = IF RecvMsg(msgbuf, call.expect, call.is_ttb).st = "raise"
                    THEN [st |-> "None", id |-> 0, ssl |-> FALSE]
                    ELSE sock
    /\ UNCHANGED <<Config, pkt, ttb_enabled, call, hs, opened>>

\* _recv_msg(expect, is_ttb) of _request (line 44)
RecvReply ==
    /\ pc = "recv"
    /\ \E msgbuf \in Frames :
         /\ Log(RecvEv("caller", msgbuf))
         /\ Finish(RecvMsg(msgbuf, call.expect, call.is_ttb))
    /\ UNCHANGED <<Config, pkt, sock, ttb_enabled, call, hs, opened>>

(***************************************************************************)
(* _recv_pkt raising in any _recv_msg (lines 212-216): the read of the     *)
(* length returned recv_len < 4 bytes, because the stream closed or        *)
(* because fewer bytes had arrived.  The socket is kept.                   *)
(***************************************************************************)
ReadBy ==
    CASE pc = "starttls_recv" -> "starttls"
      [] pc = "auth_recv" -> "auth"
      [] pc = "toggle_recv" -> "toggle"
      [] OTHER -> "caller"

RecvShort ==
    /\ pc \in {"starttls_recv", "auth_recv", "toggle_recv", "recv"}
    /\ \E recv_len \in 0..3 :
         /\ ShortHeader(recv_len)
         /\ Log(Ev("short", sock.id, ReadBy, recv_len, << >>))
         /\ Finish(Raise("RiakError", "Socket returned short packet length",
                         recv_len, NoneMsg))
    /\ hs' = [hs EXCEPT ![sock.id].unread = TRUE]
    /\ UNCHANGED <<Config, pkt, sock, ttb_enabled, call, opened>>

(***************************************************************************)
(* close (lines 245-251).  del removes the instance attribute; the class   *)
(* defines no _socket to fall back on, so a later read of self._socket     *)
(* raises AttributeError.                                                  *)
(***************************************************************************)
Close ==
    /\ pc = "idle"
    /\ call' = [op |-> "close", msg_code |-> 0, msg |-> << >>, expect |-> << >>,
                is_ttb |-> FALSE]
    /\ pc' = "idle"
    /\ IF sock.st = "deleted"
       THEN /\ outcome' = [Raise("AttributeError", "_socket", 0, NoneMsg)
                             EXCEPT !.at = "close"]
            /\ trace' = << >>
            /\ UNCHANGED <<sock, hs>>
       ELSE IF sock.st = "open"
       THEN /\ outcome' = [Ret(0, NoneMsg) EXCEPT !.at = "close"]
            /\ trace' = <<Ev("close", sock.id, "close", 0, << >>)>>
            /\ hs' = [hs EXCEPT ![sock.id].closed = TRUE]
            /\ sock' = [st |-> "deleted", id |-> 0, ssl |-> FALSE]
       ELSE /\ outcome' = [Ret(0, NoneMsg) EXCEPT !.at = "close"]
            /\ trace' = << >>
            /\ UNCHANGED <<sock, hs>>
    /\ UNCHANGED <<Config, pkt, ttb_enabled, opened>>

Next ==
    \/ \E msg_code \in RequestCodes, msg \in RequestMsgs,
          expect \in Expects, is_ttb \in BOOLEAN :
         Request(msg_code, msg, expect, is_ttb)
    \/ Connect
    \/ StartTlsSend
    \/ StartTlsRecv
    \/ SslHandshake
    \/ AuthSend
    \/ AuthRecv
    \/ EnableTtb
    \/ ToggleRecv
    \/ SendMsg
    \/ RecvReply
    \/ RecvShort
    \/ Close

Spec == Init /\ [][Next]_vars

(***************************************************************************)
(* One frame on the wire, byte by byte.                                    *)
(*                                                                         *)
(* _encode_msg builds the frame; the stream delivers its first `cut`       *)
(* bytes, in chunks of any size, and then either closes (eof) or stays     *)
(* silent; _recv_pkt reads it.  A recv_into(buf, n) on a stream with bytes *)
(* pending returns between 1 and n of them; on a closed stream it returns  *)
(* 0; on an open stream with nothing pending it blocks.                    *)
(***************************************************************************)
\* The streams cut short are cut after 0..MaxCut bytes.
MaxCut == 7
\* The length of the longest payload: its frame length needs two bytes.
LongPayload == 255

Min(a, b) == IF a < b THEN a ELSE b

PktCodes == {MSG_CODE_ERROR_RESP, 7, MSG_CODE_START_TLS}

PktPayloads == {<< >>, <<88>>, <<88, 89>>, [i \in 1..LongPayload |-> 88]}

\* msg: None (<< >>), a protobuf message (pb), or bytes already in
\* native-term form.  SerializeToString yields the message's bytes.
PktMsgs(is_ttb) ==
    {<< >>} \cup {<<[pb |-> ~is_ttb, bytes |-> b]>> : b \in PktPayloads}

SerializeToString(msg) == msg.bytes

\* struct.pack("!iB", n, code) with the length bytes in little-endian order.
PackLittleEndian(n, code) ==
    <<n % 256, (n \div 256) % 256, (n \div 65536) % 256,
      (n \div 16777216) % 256, code>>

\* struct.pack("!iB", n, code), for 0 <= n < 2^31 and a byte code
Pack_iB(n, code) ==
    <<(n \div 16777216) % 256, (n \div 65536) % 256, (n \div 256) % 256,
      n % 256, code>>

\* struct.unpack('!I', buf) (line 218)
Unpack_I(buf) ==
    buf[1] * 16777216 + buf[2] * 65536 + buf[3] * 256 + buf[4]

\* _encode_msg (lines 29-40); msg is << >> for None
EncodeMsg(msg_code, msg, is_ttb) ==
    IF Len(msg) = 0
    THEN Pack_iB(1, msg_code)
    ELSE LET data == IF is_ttb THEN msg[1].bytes ELSE SerializeToString(msg[1])
             datalen == Len(data)
         IN  Pack_iB(1 + datalen, msg_code) \o data

PktInit ==
    /\ creds = FALSE
    /\ use_stdlib_ssl = TRUE
    /\ sock = [st |-> "None", id |-> 0, ssl |-> FALSE]
    /\ ttb_enabled = FALSE
    /\ pc = "idle"
    /\ call = [op |-> "none", msg_code |-> 0, msg |-> << >>, expect |-> << >>,
               is_ttb |-> FALSE]
    /\ outcome = NoOutcome
    /\ trace = << >>
    /\ hs = [s \in Sockets |-> FreshSocket]
    /\ opened = 0
    /\ \E msg_code \in PktCodes, is_ttb \in BOOLEAN, eof \in BOOLEAN,
          cut \in 0..(MaxCut + 1) :
         \E msg \in PktMsgs(is_ttb) :
            pkt = [PktOff EXCEPT !.pc = "encode", !.msg_code = msg_code,
                                 !.msg = msg, !.is_ttb = is_ttb,
                                 !.cut = cut, !.eof = eof]

ConnVars == <<creds, use_stdlib_ssl, sock, ttb_enabled, pc, call, outcome,
              trace, hs, opened>>

\* The frame is built and written; the stream will deliver its first cut
\* bytes, or all of it when cut is above MaxCut.
EncodeStep ==
    /\ pkt.pc = "encode"
    /\ LET frame == EncodeMsg(pkt.msg_code, pkt.msg, pkt.is_ttb)
           n == IF pkt.cut > MaxCut THEN Len(frame) ELSE Min(pkt.cut, Len(frame))
       IN  pkt' = [pkt EXCEPT !.pc = "header", !.frame = frame,
                              !.cut = n, !.wire = SubSeq(frame, 1, n)]
    /\ UNCHANGED ConnVars

\* What one recv_into for at most n bytes may return.
RecvInto(n) ==
    IF Len(pkt.wire) > 0 /\ n > 0
    THEN 1..Min(n, Len(pkt.wire))
    ELSE IF pkt.eof \/ n = 0 THEN {0} ELSE {}

\* _recv_pkt, the length (lines 211-218): one recv_into of 4 bytes
RecvHeader ==
    /\ pkt.pc = "header"
    /\ \E recv_len \in RecvInto(4) :
         LET msglen_buf == [i \in 1..4 |->
                               IF i <= recv_len THEN pkt.wire[i] ELSE 0]
             rest == SubSeq(pkt.wire, recv_len + 1, Len(pkt.wire))
         IN  IF ShortHeader(recv_len)
             THEN pkt' = [pkt EXCEPT !.pc = "done", !.wire = rest,
                            !.recv_len = recv_len,
                            !.result = "Socket returned short packet length"]
             ELSE pkt' = [pkt EXCEPT !.pc = "body", !.wire = rest,
                            !.recv_len = recv_len,
                            !.msglen = Unpack_I(msglen_buf),
                            !.toread = Unpack_I(msglen_buf),
                            !.nread = 0, !.msgbuf = << >>]
    /\ UNCHANGED ConnVars

\* _recv_pkt, the body (lines 221-233): one turn of the while loop, or the
\* test and return after it
RecvBody ==
    /\ pkt.pc = "body"
    /\ IF pkt.toread # 0
       THEN \E nbytes \in RecvInto(pkt.toread) :
              pkt' = [pkt EXCEPT
                        !.msgbuf = @ \o SubSeq(pkt.wire, 1, nbytes),
                        !.wire = SubSeq(pkt.wire, nbytes + 1, Len(pkt.wire)),
                        !.toread = @ - nbytes,
                        !.nread = @ + nbytes,
                        !.zero_read = (nbytes = 0)]
       ELSE IF pkt.nread # pkt.msglen
            THEN pkt' = [pkt EXCEPT !.pc = "done",
                           !.result = "Socket returned short packet"]
            ELSE pkt' = [pkt EXCEPT !.pc = "done", !.result = "return"]
    /\ UNCHANGED ConnVars

PktNext == EncodeStep \/ RecvHeader \/ RecvBody

SpecPkt == PktInit /\ [][PktNext]_vars

(***************************************************************************)
(* Properties                                                              *)
(***************************************************************************)
\* The security handshake has completed on socket s.
Secured(s) == hs[s].starttls /\ hs[s].tls = "ok" /\ hs[s].auth

HandshakeSteps == {"starttls_recv", "ssl_handshake", "auth_recv"}

RequestDone == pc = "idle" /\ call.op = "request"

\* C1: with credentials, a caller's request frame is only ever written to a
\* socket on which STARTTLS was confirmed, the TLS upgrade succeeded and
\* the auth request was confirmed.
C1_NoRequestOnUnsecuredSocket ==
    creds =>
        \A i \in DOMAIN trace :
            (trace[i].op = "send" /\ trace[i].by = "caller")
                => Secured(trace[i].sock)

\* C2: a request() that failed in the security handshake (on a reply to
\* STARTTLS or to the auth request, or in the TLS upgrade) leaves the
\* connection without a socket.
C2_FailedHandshakeDiscardsSocket ==
    (/\ RequestDone
     /\ outcome.st = "raise"
     /\ outcome.at \in HandshakeSteps
     /\ trace[Len(trace)].op \in {"recv", "tls"})
        => sock.st # "open"

\* C3: a reply to STARTTLS of any kind but STARTTLS-confirm ends the call
\* with SecurityError, and no TLS upgrade is attempted on that socket.
C3_StartTlsRefusalIsSecurityError ==
    \A i \in DOMAIN trace :
        (trace[i].op = "recv" /\ trace[i].by = "starttls"
            /\ trace[i].code # MSG_CODE_START_TLS)
        => /\ pc = "idle"
           /\ outcome.st = "raise"
           /\ outcome.cls = "SecurityError"
           /\ hs[trace[i].sock].tls = "untried"

\* C4: a reply to the auth request of any kind but the auth response ends
\* the call with SecurityError("Could not authorize connection").
C4_AuthRejectionIsSecurityError ==
    \A i \in DOMAIN trace :
        (trace[i].op = "recv" /\ trace[i].by = "auth"
            /\ trace[i].code # MSG_CODE_AUTH_RESP)
        => /\ pc = "idle"
           /\ outcome.st = "raise"
           /\ outcome.cls = "SecurityError"
           /\ outcome.text = "Could not authorize connection"

\* What a call that opens a socket with credentials puts on the wire first,
\* in order: the socket, STARTTLS and its reply, the TLS upgrade, the auth
\* request and its reply.
HandshakeOps == <<"connect", "send", "recv", "tls", "send", "recv">>

HandshakeStepOk(i) ==
    /\ trace[i].sock = trace[1].sock
    /\ \/ trace[i].op = HandshakeOps[i]
       \/ trace[i].op \in {"recv0", "short"} /\ HandshakeOps[i] = "recv"
    /\ i = 2 => trace[i].by = "starttls" /\ trace[i].code = MSG_CODE_START_TLS
    /\ i = 3 => trace[i].by = "starttls"
    /\ i = 5 => trace[i].by = "auth" /\ trace[i].code = MSG_CODE_AUTH_REQ
    /\ i = 6 => trace[i].by = "auth"
    \* a step is taken only after the one before it succeeded
    /\ i > 3 => trace[3].op = "recv" /\ trace[3].code = MSG_CODE_START_TLS
    /\ i > 4 => trace[4].by = "ok"

C6_TtbFlagBelongsToHeldSocket ==
    ttb_enabled => (sock.st = "open" /\ hs[sock.id].toggled)

\* C7: close() never fails, whether or not the connection was connected or
\* already closed, and leaves the connection disconnected.
C7_CloseIsIdempotent ==
    (pc = "idle" /\ call.op = "close")
        => (outcome.st = "return" /\ sock.st # "open")

\* C8: a request() made after close() reconnects: past _connect it holds a
\* socket that was never closed (unless the new connection was refused),
\* and it touches no closed socket.
C8_RequestAfterCloseReconnects ==
    (call.op = "request" /\ pc # "connect" /\ \E s \in Sockets : hs[s].closed)
        => /\ outcome.cls # "AttributeError"
           /\ \/ sock.st = "open" /\ ~hs[sock.id].closed
              \/ outcome.cls = "socket.error"
           /\ \A i \in DOMAIN trace :
                trace[i].op \in {"send", "recv", "recv0"}
                    => ~hs[trace[i].sock].closed

\* C9: a received frame of the error kind ends the call with the error
\* that carries the frame's message, whatever was expected and whether or
\* not the request is native-term.
C9_ErrorFrameRaisesItsMessage ==
    \A i \in DOMAIN trace :
        (trace[i].op = "recv" /\ trace[i].code = MSG_CODE_ERROR_RESP)
        => /\ pc = "idle"
           /\ outcome.st = "raise"
           /\ outcome.cls = "RiakError"
           /\ outcome.text = "%errmsg"
           /\ outcome.msg.data = trace[i].data

\* The reply to the caller's frame was of a registered, non-error kind
\* other than the expected kind that was given.
UnexpectedReply ==
    /\ RequestDone
    /\ Len(trace) > 0
    /\ trace[Len(trace)].op = "recv"
    /\ trace[Len(trace)].by = "caller"
    /\ Len(call.expect) = 1
    /\ trace[Len(trace)].code \in DOMAIN MESSAGE_CLASSES
    /\ trace[Len(trace)].code # MSG_CODE_ERROR_RESP
    /\ trace[Len(trace)].code # call.expect[1]

RaisedUnexpected ==
    /\ outcome.st = "raise"
    /\ outcome.cls = "RiakError"
    /\ outcome.text = "unexpected protocol buffer message code"
    /\ outcome.code = trace[Len(trace)].code
    /\ outcome.msg.tag # "None" => outcome.msg.data = trace[Len(trace)].data

\* C10 as stated: every such reply, to a structured or a native-term
\* request and whatever kind was expected, fails as an unexpected kind.
C10_UnexpectedKindAlways == UnexpectedReply => RaisedUnexpected

\* C10: such a reply fails as an unexpected kind, reporting the kind
\* received, when the expected kind is not 0 and, for a native-term
\* request, the kind received is a time-series get or put response.
C10_UnexpectedKind ==
    (/\ UnexpectedReply
     /\ call.expect[1] # 0
     /\ call.is_ttb => trace[Len(trace)].code \in
                          {MSG_CODE_TS_GET_RESP, MSG_CODE_TS_PUT_RESP})
        => RaisedUnexpected

\* C10's case: a native-term request whose reply is of an unexpected kind.
C10_Witness ==
    /\ UnexpectedReply /\ RaisedUnexpected
    /\ call.is_ttb
    /\ trace[Len(trace)].data # << >>

\* The last entry of the call's trace.
Last == trace[Len(trace)]

\* C13: once the native-term encoding is enabled on the connection,
\* _enable_ttb passes straight on to the caller's frame: no step writes or
\* reads a frame of the encoding toggle.
C13_EnabledTtbSkipsToggle ==
    [][ttb_enabled =>
          /\ (Len(trace') > Len(trace) /\ Len(trace') > 0)
                 => trace'[Len(trace')].by # "toggle"
          /\ pc = "enable_ttb" => (pc' = "send" /\ trace' = trace)
          /\ pc' # "toggle_recv"]_vars

C13_Witness ==
    /\ RequestDone
    /\ outcome.st = "return"
    /\ call.is_ttb /\ ttb_enabled
    /\ trace[1].by = "noop"
    /\ Len(trace) = 3
    /\ trace[2].op = "send" /\ trace[2].by = "caller"

\* C15: without credentials, no frame of STARTTLS or of the auth request
\* is written or read and no TLS upgrade is run, and the first frame written
\* on a new socket is the caller's, or the encoding toggle's when the
\* native-term encoding is asked for.  With or without credentials, a
\* request entered with a socket in place opens none, runs no handshake
\* step and writes to the socket in place.
C15_NoHandshakeWithoutNeed ==
    /\ ~creds =>
          /\ \A i \in DOMAIN trace :
                /\ trace[i].by \notin {"starttls", "auth"}
                /\ trace[i].op # "tls"
          /\ \A s \in Sockets :
                /\ hs[s].hsRuns = 0 /\ ~hs[s].starttls
                /\ hs[s].tls = "untried"
                /\ ~hs[s].authSent /\ ~hs[s].auth
          /\ pc \notin {"starttls", "starttls_recv", "ssl_handshake", "auth",
                        "auth_recv"}
          /\ (Len(trace) >= 2 /\ trace[1].by = "open") =>
                /\ trace[2].op = "send"
                /\ trace[2].sock = trace[1].sock
                /\ trace[2].by = (IF call.is_ttb THEN "toggle" ELSE "caller")
    /\ (Len(trace) >= 1 /\ trace[1].by = "noop") =>
          /\ sock.st = "open" /\ sock.id = trace[1].sock
          /\ \A i \in DOMAIN trace :
                /\ trace[i].by \notin {"open", "starttls", "auth"}
                /\ trace[i].op # "tls"
                /\ trace[i].sock = trace[1].sock
          /\ Len(trace) >= 2 =>
                (trace[2].op = "send" /\ trace[2].by \in {"toggle", "caller"})

C15_Witness ==
    /\ ~creds
    /\ RequestDone
    /\ outcome.st = "return"
    /\ trace[1].by = "open"
    /\ trace[2].op = "send" /\ trace[2].by = "caller"

\* C16: when the reply to the encoding toggle is of another kind than the
\* toggle's confirmation, the request fails with the error 'could not
\* switch to TTB encoding!' and the caller's frame is not written.
C16_ToggleRefusalIsTtbError ==
    (/\ Len(trace) > 0
     /\ Last.op = "recv" /\ Last.by = "toggle"
     /\ Last.code # MSG_CODE_TOGGLE_ENCODING_RESP)
        => /\ RequestDone
           /\ outcome.st = "raise"
           /\ outcome.text = "could not switch to TTB encoding!"
           /\ ~ttb_enabled
           /\ \A i \in DOMAIN trace : trace[i].by # "caller"

\* A call that ended on a server error or on a reply of an unexpected kind.
RecoverableFailure(o) ==
    /\ o.st = "raise"
    /\ o.text \in {"%errmsg", "unexpected protocol buffer message code"}

\* C17: the step on which a request fails with a server error or with an
\* unexpected kind has read one whole frame and changes neither the socket,
\* which stays open, nor the native-term flag; the next request finds the
\* socket in place and goes on to write on it without opening a socket.
C17_FailureLeavesConnection ==
    [][/\ (pc # "idle" /\ pc' = "idle" /\ RecoverableFailure(outcome')) =>
             /\ sock' = sock /\ sock.st = "open"
             /\ ttb_enabled' = ttb_enabled
             /\ opened' = opened
             /\ hs' = hs \/ pc = "toggle_recv"
             /\ ~hs'[sock.id].closed
             /\ Len(trace') = Len(trace) + 1
             /\ trace'[Len(trace')].op = "recv"
             /\ trace'[Len(trace')].sock = sock.id
       /\ (pc = "idle" /\ RecoverableFailure(outcome) /\ pc' = "connect") =>
             (sock' = sock /\ sock.st = "open")
       /\ (pc = "connect" /\ sock.st = "open") =>
             /\ pc' = "enable_ttb"
             /\ sock' = sock /\ opened' = opened /\ hs' = hs
             /\ trace' = <<Ev("connect", sock.id, "noop", 0, << >>)>>
      ]_vars

\* A server error ended a request; the next request wrote to and read from
\* the same socket.
C17_Witness ==
    /\ RequestDone
    /\ RecoverableFailure(outcome)
    /\ trace[1].by = "noop"
    /\ Len(trace) = 3
    /\ trace[2].op = "send" /\ trace[2].sock = sock.id
    /\ Last.op = "recv" /\ Last.sock = sock.id

\* C18: every frame written is followed by the read of one response frame
\* before any further frame is written: within a call the entry after a
\* write is the read of a frame, and no frame is written to a socket on
\* which a response was left unread by an earlier call.
C18_FramesAlternate ==
    \A i \in DOMAIN trace :
        trace[i].op = "send" =>
            /\ i < Len(trace) => trace[i + 1].op \in {"recv", "recv0", "short"}
            /\ i = Len(trace) =>
                  /\ pc \in {"starttls_recv", "auth_recv", "toggle_recv", "recv"}
                  /\ ~hs[trace[i].sock].unread

\* C20 as stated: a native-term request decodes only the two kinds of the
\* allow-list, and its reply of any other kind fails with "TTB can't parse
\* code"; no other call uses the native-term decoder.
C20_TtbAllowListAlways ==
    /\ outcome.msg.tag = "ttb" =>
          (call.is_ttb /\ outcome.at = "recv" /\ outcome.code \in TtbAllowed)
    /\ (RequestDone /\ call.is_ttb /\ Len(trace) > 0
        /\ Last.op = "recv" /\ Last.by = "caller"
        /\ Last.code \notin TtbAllowed)
          => (outcome.st = "raise" /\ outcome.text = "TTB can't parse code")

\* C20: a native-term request decodes only the two kinds of the allow-list;
\* its reply of any other registered kind, the error kind included, fails
\* with "TTB can't parse code", and its reply of an unregistered kind fails
\* with "unknown msg code".  No other call uses the native-term decoder.
C20_TtbAllowList ==
    /\ outcome.msg.tag = "ttb" =>
          (call.is_ttb /\ outcome.at = "recv" /\ outcome.code \in TtbAllowed)
    /\ (RequestDone /\ call.is_ttb /\ Len(trace) > 0
        /\ Last.op = "recv" /\ Last.by = "caller"
        /\ Last.code \notin TtbAllowed)
          => /\ outcome.st = "raise"
             /\ outcome.msg.tag = "None"
             /\ outcome.text = (IF Last.code \in DOMAIN MESSAGE_CLASSES
                                THEN "TTB can't parse code"
                                ELSE "unknown msg code")

C20_Witness ==
    /\ RequestDone /\ call.is_ttb
    /\ Last.op = "recv" /\ Last.by = "caller"
    /\ Last.code = MSG_CODE_ERROR_RESP
    /\ Last.data # << >>
    /\ outcome.text = "TTB can't parse code"

(***************************************************************************)
(* Properties of one frame on the wire (SpecPkt)                           *)
(***************************************************************************)
\* The payload bytes _encode_msg was given (none for a bare signal).
PktData == IF Len(pkt.msg) = 0 THEN << >> ELSE pkt.msg[1].bytes

PktBody == SubSeq(pkt.frame, 5, Len(pkt.frame))

\* C11: when the stream delivers all bytes of the frame, in chunks of
\* whatever size, _recv_pkt returns the frame body, as it does when they
\* arrive in one chunk.
C11_ChunkedReadSameAsWhole ==
    (pkt.pc = "done" /\ pkt.cut = Len(pkt.frame))
        => (pkt.result = "return" /\ pkt.msgbuf = PktBody)

\* C12: once the header is read and a read of the body returns 0 bytes
\* (the stream closed), _recv_pkt has ended with the short-packet error.
C12_MidBodyCloseRaisesShortRead ==
    (pkt.pc \in {"body", "done"} /\ pkt.zero_read)
        => (pkt.pc = "done" /\ pkt.result = "Socket returned short packet")

\* C14: the frame is the 4-byte big-endian length 1 + payload length, the
\* kind byte and the payload (5 bytes when there is no payload); kind 7
\* with payload "X" is 00 00 00 02 07 58; and a frame read back gives the
\* kind as first body byte and the payload as the rest.
C14_EncodeRoundTrip ==
    pkt.pc \notin {"off", "encode"} =>
        /\ Len(pkt.frame) = 5 + Len(PktData)
        /\ \A i \in 1..5 : pkt.frame[i] \in 0..255
        /\ pkt.frame[1] * 16777216 + pkt.frame[2] * 65536
             + pkt.frame[3] * 256 + pkt.frame[4] = 1 + Len(PktData)
        /\ Len(pkt.msg) = 0 => Len(pkt.frame) = 5
        /\ pkt.frame[5] = pkt.msg_code
        /\ SubSeq(pkt.frame, 6, Len(pkt.frame)) = PktData
        /\ (pkt.msg_code = 7 /\ PktData = <<88>>)
              => pkt.frame = <<0, 0, 0, 2, 7, 88>>
        /\ pkt.result = "return"
              => /\ Head(pkt.msgbuf) = pkt.msg_code
                 /\ Tail(pkt.msgbuf) = PktData

\* C14's cases: kind 7 with payload "X" read back, and a frame whose
\* length needs more than one byte.
C14_Witness ==
    /\ pkt.pc = "done" /\ pkt.result = "return"
    /\ pkt.msg_code = 7 /\ PktData = <<88>>

\* C19: when the stream closes after fewer than 4 bytes of the header,
\* _recv_pkt ends with the short-packet-length error and reads no body.
C19_ShortHeader ==
    (pkt.pc \in {"body", "done"} /\ pkt.eof /\ pkt.cut < 4)
        => /\ pkt.pc = "done"
           /\ pkt.result = "Socket returned short packet length"
           /\ pkt.nread = 0 /\ pkt.msgbuf = << >> /\ pkt.msglen = 0

\* C19's case: the stream closed after 1 to 3 header bytes.
C19_Witness ==
    /\ pkt.pc = "done" /\ pkt.eof
    /\ pkt.cut \in 1..3 /\ pkt.recv_len = pkt.cut
    /\ pkt.result = "Socket returned short packet length"

====
